---- MODULE Spec2Model ----
(***************************************************************************)
(* Model of the ss.lv scraper (web_srcaper.py): link discovery, field      *)
(* extraction by string carving, the append-only report writer and main's  *)
(* per-listing loop, together with the remote site it reads.               *)
(*                                                                         *)
(* Text is modelled by strings, so that concatenation, searching and       *)
(* splitting are computed as Python computes them.  Python sequences are   *)
(* indexed from 0; Item(s, k) reads s[k].                                  *)
(***************************************************************************)
EXTENDS Integers, Sequences, FiniteSets, TLC

VARIABLES
    pc,                \* position of the running function
    err,               \* exception that ended the run ("none" while running)
    err_line,          \* source line that raised it (0 while running)
    index_page,        \* remote: what the index URL serves
    web,               \* remote: what each listing URL serves now
    edited,            \* remote: a listing page was edited during the run
    ogre_object,       \* main: parsed index page
    nondup_urls,       \* main: discovered links
    it,                \* main: next value of the outer range(10) iterator
    i,                 \* main: the variable i (bound by both loops)
    jt,                \* main: next value of the inner range iterator
    current_msg_url,   \* main: URL line of the current listing
    table_opt_names,   \* main: attribute names of the current listing
    table_opt_values,  \* main: attribute values of the current listing
    table_price,       \* main: price cells of the current listing
    report,            \* file system: 'Ogre-raw-data-report.txt'
    prior,             \* history: the report file before the run
    calls,             \* history: write_line calls so far (line, listing, text)
    docs,              \* history: pages fetched for the current listing
    visited,           \* history: indices read from nondup_urls at line 34
    soup,              \* extraction run: the parsed detail page
    td_class,          \* extraction run: the requested cell class
    table_fields,      \* extraction run: result of get_msg_table_info
    rerun              \* discovery run: result of a second discovery

vars == <<pc, err, err_line, index_page, web, edited, ogre_object, nondup_urls,
          it, i, jt, current_msg_url, table_opt_names, table_opt_values,
          table_price, report, prior, calls, docs, visited, soup, td_class,
          table_fields, rerun>>

-----------------------------------------------------------------------------
(* Bounds of the model and constants of the program *)

MaxLinks == 11      \* listing anchors on the index page: 0..MaxLinks
MaxAttrs == 3       \* name cells and value cells on a detail page: 0..MaxAttrs
MaxAnchors == 4     \* anchors of a document given to discovery alone
MaxCells == 2       \* cells of a page given to extraction alone
N == 10             \* range(10)

-----------------------------------------------------------------------------
(* Python built-ins used by the program *)

Min(S) == CHOOSE k \in S : \A j \in S : k <= j

Item(s, k) == s[k + 1]

InRange(s, k) == k >= 0 /\ k < Len(s)

\* str.find: 1-based position of the first occurrence of sub in s, 0 if none
find(s, sub) ==
    LET hits == {k \in 1..(Len(s) - Len(sub) + 1) :
                    SubSeq(s, k, k + Len(sub) - 1) = sub}
    IN  IF hits = {} THEN 0 ELSE Min(hits)

\* re.search(pattern, s) for a literal pattern: is there a match
re_search(pattern, s) == find(s, pattern) # 0

\* s.split(sep, 1): at most one split, at the first occurrence of sep
split1(s, sep) ==
    LET k == find(s, sep)
    IN  IF k = 0 THEN <<s>>
        ELSE <<SubSeq(s, 1, k - 1), SubSeq(s, k + Len(sep), Len(s))>>

RECURSIVE Flatten(_)
Flatten(texts) ==
    IF texts = <<>> THEN "" ELSE Head(texts) \o Flatten(Tail(texts))

-----------------------------------------------------------------------------
(* Documents *)

flats_ogre == "https://www.ss.lv/lv/real-estate/flats/ogre-and-reg/ogre/sell/"

origin == "https://ss.lv"

Anchor(h) == [has_href |-> TRUE, href |-> h]
NoHref == [has_href |-> FALSE, href |-> ""]

\* bs_object.find_all('a', href=True)
find_all_a(bs_object) == SelectSeq(bs_object, LAMBDA a : a.has_href)

-----------------------------------------------------------------------------
(* find_single_page_urls *)

RECURSIVE url_list_of(_)
url_list_of(anchors) ==
    IF anchors = <<>> THEN <<>>
    ELSE LET one_link == origin \o Head(anchors).href
         IN  (IF re_search("msg", one_link) THEN <<one_link>> ELSE <<>>)
                 \o url_list_of(Tail(anchors))

RECURSIVE keep_all(_, _)
keep_all(url_list, valid_urls) ==
    IF url_list = <<>> THEN valid_urls
    ELSE keep_all(Tail(url_list), Append(valid_urls, Head(url_list)))

RECURSIVE dedup(_, _)
dedup(url_list, valid_urls) ==
    IF url_list = <<>> THEN valid_urls
    ELSE dedup(Tail(url_list),
               IF \E k \in 1..Len(valid_urls) : valid_urls[k] = Head(url_list)
               THEN valid_urls
               ELSE Append(valid_urls, Head(url_list)))

find_single_page_urls(bs_object) ==
    dedup(url_list_of(find_all_a(bs_object)), <<>>)

-----------------------------------------------------------------------------
(* Detail pages.  A page is what requests.get and BeautifulSoup give for a   *)
(* listing URL: status "down" when the request raises, otherwise a document  *)
(* with or without the table id="page_main" and that table's td cells in     *)
(* document order.  A cell has a class, an optional id and child nodes       *)
(* (text, an element with text content, or a void element).                  *)

Text(t) == [kind |-> "text", name |-> "", href |-> "", text |-> t]
Elem(n, t) == [kind |-> "tag", name |-> n, href |-> "", text |-> t]
Link(h, t) == [kind |-> "tag", name |-> "a", href |-> h, text |-> t]
Void(n) == [kind |-> "void", name |-> n, href |-> "", text |-> ""]

Cell(c, id, ch) == [class |-> c, id |-> id, children |-> ch]

Down == [status |-> "down", table |-> FALSE, cells |-> <<>>]
NoTable == [status |-> "ok", table |-> FALSE, cells |-> <<>>]
Doc(cells) == [status |-> "ok", table |-> TRUE, cells |-> cells]

\* str(node), as BeautifulSoup serialises it
str_node(n) ==
    IF n.kind = "text" THEN n.text
    ELSE IF n.kind = "void" THEN "<" \o n.name \o "/>"
    ELSE "<" \o n.name
             \o (IF n.href = "" THEN "" ELSE " href=\"" \o n.href \o "\"")
             \o ">" \o n.text \o "</" \o n.name \o ">"

RECURSIVE inner_html(_)
inner_html(children) ==
    IF children = <<>> THEN ""
    ELSE str_node(Head(children)) \o inner_html(Tail(children))

open_tag(cell) ==
    "<td class=\"" \o cell.class \o "\""
        \o (IF cell.id = "" THEN "" ELSE " id=\"" \o cell.id \o "\"")
        \o ">"

\* str(data) at line 103
str_td(cell) == open_tag(cell) \o inner_html(cell.children) \o "</td>"

\* table.findAll('td', {"class": td_class})
findAll_td(page, cls) == SelectSeq(page.cells, LAMBDA c : c.class = cls)

-----------------------------------------------------------------------------
(* get_msg_table_info *)

\* lines 103-105 with the cut at the first tag of any kind
carve_at_tag(tostr) ==
    LET parts == split1(tostr, "\">")
    IN  IF Len(parts) < 2 THEN [ok |-> FALSE, name |-> ""]
        ELSE [ok |-> TRUE, name |-> Item(split1(Item(parts, 1), "<"), 0)]

\* lines 103-105: no_front = tostr.split('">', 1)[1]; name = no_front.split("</", 1)[0]
carve(tostr) ==
    LET parts == split1(tostr, "\">")
    IN  IF Len(parts) < 2 THEN [ok |-> FALSE, name |-> ""]
        ELSE [ok |-> TRUE, name |-> Item(split1(Item(parts, 1), "</"), 0)]

\* lines 95-107: the outcome for the page the request returns
get_msg_table_info(page, cls) ==
    IF page.status = "down"
    THEN [err |-> "ConnectionError", line |-> 95, fields |-> <<>>]
    ELSE IF ~page.table
    THEN [err |-> "AttributeError", line |-> 101, fields |-> <<>>]
    ELSE LET table_data == findAll_td(page, cls)
             carved == [k \in 1..Len(table_data) |-> carve(str_td(table_data[k]))]
         IN  IF \E k \in 1..Len(carved) : ~carved[k].ok
             THEN [err |-> "IndexError", line |-> 104, fields |-> <<>>]
             ELSE [err |-> "none", line |-> 0,
                   fields |-> [k \in 1..Len(carved) |-> carved[k].name]]

-----------------------------------------------------------------------------
(* write_line *)

Absent == [exists |-> FALSE, content |-> ""]

\* open(file_name, 'w'): truncates
write_line_truncating(the_file, text) ==
    [exists |-> TRUE, content |-> text]

\* lines 114-115: open(file_name, 'a') creates the file if absent; write appends
write_line(the_file, text) ==
    [exists |-> TRUE, content |-> the_file.content \o text]

-----------------------------------------------------------------------------
(* The remote site of a run of main.  The index page carries a navigation   *)
(* anchor, an anchor without href, L listing anchors and a second anchor to *)
(* the first listing.  Every listing serves the same page when the run      *)
(* starts; the page of the listing being processed may be edited once       *)
(* between two requests (edits at other moments are indistinguishable from  *)
(* a different initial site).                                               *)

msg_href(k) == "/msg/lv/" \o ToString(k) \o ".html"

IndexDoc(L) ==
    <<NoHref, Anchor("/lv/real-estate/")>>
        \o [k \in 1..L |-> Anchor(msg_href(k))]
        \o (IF L > 0 THEN <<Anchor(msg_href(1))>> ELSE <<>>)

IndexDown == [status |-> "down", anchors |-> <<>>]
IndexUp(L) == [status |-> "ok", anchors |-> IndexDoc(L)]

ListingUrls(L) == {origin \o msg_href(k) : k \in 1..L}

name_text(k) == "N" \o ToString(k) \o ":"
value_text(k) == "V" \o ToString(k)
price_text == "100"

RECURSIVE Rows(_, _, _)
Rows(k, m, n) ==
    IF k > m /\ k > n THEN <<>>
    ELSE (IF k <= m THEN <<Cell("ads_opt_name", "", <<Text(name_text(k))>>)>> ELSE <<>>)
        \o (IF k <= n THEN <<Cell("ads_opt", "", <<Text(value_text(k))>>)>> ELSE <<>>)
        \o Rows(k + 1, m, n)

\* a detail page with m name cells, n value cells and p price cells
Page(m, n, p) ==
    Doc(Rows(1, m, n) \o [k \in 1..p |-> Cell("ads_price", "", <<Text(price_text)>>)])

Pages ==
    {Down, NoTable}
        \cup {Page(m, n, p) : m \in 0..MaxAttrs, n \in 0..MaxAttrs, p \in 0..1}

Count(page, cls) == Len(findAll_td(page, cls))

\* the owner adds or removes one attribute row, or the listing is taken down
Edits(page) ==
    IF ~page.table THEN {}
    ELSE LET m == Count(page, "ads_opt_name")
             n == Count(page, "ads_opt")
             p == Count(page, "ads_price")
         IN  {NoTable}
                 \cup {Page(m + 1, n + 1, p) : x \in {y \in {1} : m < MaxAttrs /\ n < MaxAttrs}}
                 \cup {Page(m - 1, n - 1, p) : x \in {y \in {1} : m > 0 /\ n > 0}}

PriorFiles == {Absent, [exists |-> TRUE, content |-> "earlier run\n"]}

NoResult == [err |-> "none", line |-> 0, fields |-> <<>>]

-----------------------------------------------------------------------------
(* main *)

report_header == "This is 10 message report about Ogre flats for sale: \n"

remoteVars == <<index_page, web, edited>>
loopVars == <<it, i, jt>>
tableVars == <<table_opt_names, table_opt_values, table_price>>
fileVars == <<report, calls>>
soloVars == <<soup, td_class, table_fields, rerun>>

Init ==
    /\ pc = "start"
    /\ err = "none"
    /\ err_line = 0
    /\ \E L \in 0..MaxLinks, page \in Pages :
          /\ index_page \in {IndexDown, IndexUp(L)}
          /\ web = [u \in ListingUrls(L) |-> page]
    /\ edited = FALSE
    /\ ogre_object = <<>>
    /\ nondup_urls = <<>>
    /\ it = 0
    /\ i = -1                       \* i is unbound before the loop
    /\ jt = 0
    /\ current_msg_url = ""
    /\ table_opt_names = <<>>
    /\ table_opt_values = <<>>
    /\ table_price = <<>>
    /\ report \in PriorFiles
    /\ prior = report
    /\ calls = <<>>
    /\ docs = <<>>
    /\ visited = <<>>
    /\ soup = NoTable
    /\ td_class = ""
    /\ table_fields = NoResult
    /\ rerun = <<>>

Fault(e, l) == pc' = "fault" /\ err' = e /\ err_line' = l

Goto(l) == pc' = l /\ UNCHANGED <<err, err_line>>

\* the effect of write_line(text, 'Ogre-raw-data-report.txt') called at line l
Write(l, text) ==
    /\ report' = write_line(report, text)
    /\ calls' = Append(calls, [line |-> l, listing |-> Len(visited), text |-> text])

\* line 19 (get_bs_object, lines 56-58)
GetIndex ==
    /\ pc = "start"
    /\ IF index_page.status = "down"
       THEN Fault("ConnectionError", 56) /\ UNCHANGED ogre_object
       ELSE Goto("discover") /\ ogre_object' = index_page.anchors
    /\ UNCHANGED <<remoteVars, nondup_urls, loopVars, current_msg_url, tableVars,
                   fileVars, prior, docs, visited, soloVars>>

\* line 23
Discover ==
    /\ pc = "discover"
    /\ nondup_urls' = find_single_page_urls(ogre_object)
    /\ Goto("loop")
    /\ UNCHANGED <<remoteVars, ogre_object, loopVars, current_msg_url, tableVars,
                   fileVars, prior, docs, visited, soloVars>>

\* a loop that shares its counter with the inner loop
range_next_shared(iter, var) == var + 1

\* line 33: the value the outer range iterator gives to i, whatever i holds
range_next(iter, var) == iter

\* lines 33-34
LoopHead ==
    /\ pc = "loop"
    /\ LET v == range_next(it, i)
       IN  IF v < N
           THEN /\ i' = v
                /\ it' = v + 1
                /\ visited' = Append(visited, v)
                /\ docs' = <<>>
                /\ IF InRange(nondup_urls, v)
                   THEN Goto("names") /\ current_msg_url' = Item(nondup_urls, v) \o "\n"
                   ELSE Fault("IndexError", 34) /\ UNCHANGED current_msg_url
           ELSE /\ Goto("done")
                /\ UNCHANGED <<i, it, visited, docs, current_msg_url>>
    /\ UNCHANGED <<remoteVars, ogre_object, nondup_urls, jt, tableVars, fileVars,
                   prior, soloVars>>

\* requests.get(nondup_urls[i]) now
Served == web[Item(nondup_urls, i)]

\* line 35
GetNames ==
    /\ pc = "names"
    /\ docs' = Append(docs, Served)
    /\ LET r == get_msg_table_info(Served, "ads_opt_name")
       IN  IF r.err = "none"
           THEN Goto("values") /\ table_opt_names' = r.fields
           ELSE Fault(r.err, r.line) /\ UNCHANGED table_opt_names
    /\ UNCHANGED <<remoteVars, ogre_object, nondup_urls, loopVars, current_msg_url,
                   table_opt_values, table_price, fileVars, prior, visited, soloVars>>

\* line 36
GetValues ==
    /\ pc = "values"
    /\ docs' = Append(docs, Served)
    /\ LET r == get_msg_table_info(Served, "ads_opt")
       IN  IF r.err = "none"
           THEN Goto("price") /\ table_opt_values' = r.fields
           ELSE Fault(r.err, r.line) /\ UNCHANGED table_opt_values
    /\ UNCHANGED <<remoteVars, ogre_object, nondup_urls, loopVars, current_msg_url,
                   table_opt_names, table_price, fileVars, prior, visited, soloVars>>

\* line 37
GetPrice ==
    /\ pc = "price"
    /\ docs' = Append(docs, Served)
    /\ LET r == get_msg_table_info(Served, "ads_price")
       IN  IF r.err = "none"
           THEN Goto("header") /\ table_price' = r.fields
           ELSE Fault(r.err, r.line) /\ UNCHANGED table_price
    /\ UNCHANGED <<remoteVars, ogre_object, nondup_urls, loopVars, current_msg_url,
                   table_opt_names, table_opt_values, fileVars, prior, visited, soloVars>>

\* line 40
WriteHeader ==
    /\ pc = "header"
    /\ Write(40, report_header)
    /\ Goto("url")
    /\ UNCHANGED <<remoteVars, ogre_object, nondup_urls, loopVars, current_msg_url,
                   tableVars, prior, docs, visited, soloVars>>

\* line 42, and the inner range iterator of line 43
WriteUrl ==
    /\ pc = "url"
    /\ Write(42, current_msg_url)
    /\ jt' = 0
    /\ Goto("pairs")
    /\ UNCHANGED <<remoteVars, ogre_object, nondup_urls, it, i, current_msg_url,
                   tableVars, prior, docs, visited, soloVars>>

\* lines 43-46: one iteration of the inner loop
WritePair ==
    /\ pc = "pairs"
    /\ jt < Len(table_opt_names) - 1
    /\ i' = jt
    /\ jt' = jt + 1
    /\ IF InRange(table_opt_values, jt)
       THEN /\ Write(46, Item(table_opt_names, jt) \o "-->"
                             \o Item(table_opt_values, jt) \o "\n")
            /\ Goto("pairs")
       ELSE Fault("IndexError", 45) /\ UNCHANGED fileVars
    /\ UNCHANGED <<remoteVars, ogre_object, nondup_urls, it, current_msg_url,
                   tableVars, prior, docs, visited, soloVars>>

\* line 43 exhausted, then lines 47-48
WritePrice ==
    /\ pc = "pairs"
    /\ jt >= Len(table_opt_names) - 1
    /\ IF InRange(table_price, 0)
       THEN /\ Write(48, "Price:--->" \o Item(table_price, 0) \o "\n")
            /\ Goto("loop")
       ELSE Fault("IndexError", 47) /\ UNCHANGED fileVars
    /\ UNCHANGED <<remoteVars, ogre_object, nondup_urls, loopVars, current_msg_url,
                   tableVars, prior, docs, visited, soloVars>>

\* the remote page of the listing being processed changes between two requests
RemoteChange ==
    /\ pc \in {"values", "price"}
    /\ ~edited
    /\ \E q \in Edits(Served) :
          web' = [web EXCEPT ![Item(nondup_urls, i)] = q]
    /\ edited' = TRUE
    /\ UNCHANGED <<pc, err, err_line, index_page, ogre_object, nondup_urls, loopVars,
                   current_msg_url, tableVars, fileVars, prior, docs, visited, soloVars>>

Next ==
    \/ GetIndex
    \/ Discover
    \/ LoopHead
    \/ GetNames
    \/ GetValues
    \/ GetPrice
    \/ WriteHeader
    \/ WriteUrl
    \/ WritePair
    \/ WritePrice
    \/ RemoteChange

Spec == Init /\ [][Next]_vars

-----------------------------------------------------------------------------
(* Discovery alone: find_single_page_urls applied, twice, to any document   *)
(* of at most MaxAnchors anchors.                                           *)

SampleAnchors ==
    {NoHref, Anchor("/msg/a.html"), Anchor("/msg/b.html"),
     Anchor("/lv/real-estate/"), Anchor("/ms/g.html")}

Documents == UNION {[1..n -> SampleAnchors] : n \in 0..MaxAnchors}

InitDiscover ==
    /\ pc = "d_call"
    /\ err = "none"
    /\ err_line = 0
    /\ index_page = IndexDown
    /\ web = <<>>
    /\ edited = FALSE
    /\ ogre_object \in Documents
    /\ nondup_urls = <<>>
    /\ it = 0
    /\ i = -1
    /\ jt = 0
    /\ current_msg_url = ""
    /\ table_opt_names = <<>>
    /\ table_opt_values = <<>>
    /\ table_price = <<>>
    /\ report = Absent
    /\ prior = Absent
    /\ calls = <<>>
    /\ docs = <<>>
    /\ visited = <<>>
    /\ soup = NoTable
    /\ td_class = ""
    /\ table_fields = NoResult
    /\ rerun = <<>>

DiscoverOnce ==
    /\ pc = "d_call"
    /\ nondup_urls' = find_single_page_urls(ogre_object)
    /\ Goto("d_again")
    /\ UNCHANGED <<remoteVars, ogre_object, loopVars, current_msg_url, tableVars,
                   fileVars, prior, docs, visited, soloVars>>

DiscoverAgain ==
    /\ pc = "d_again"
    /\ rerun' = find_single_page_urls(ogre_object)
    /\ Goto("d_done")
    /\ UNCHANGED <<remoteVars, ogre_object, nondup_urls, loopVars, current_msg_url,
                   tableVars, fileVars, prior, docs, visited, soup, td_class,
                   table_fields>>

NextDiscover == DiscoverOnce \/ DiscoverAgain

SpecDiscover == InitDiscover /\ [][NextDiscover]_vars

-----------------------------------------------------------------------------
(* Extraction alone: get_msg_table_info applied to any page of at most      *)
(* MaxCells cells, the cells drawn from sample contents with and without    *)
(* nested markup.                                                           *)

SampleChildren ==
    {<<>>,
     <<Text("Ogre")>>,
     <<Elem("b", "Ogre")>>,
     <<Text("2"), Elem("b", "x")>>,
     <<Text("50 m"), Void("br"), Text("2")>>,
     <<Void("br")>>,
     <<Text("Rigas"), Link("/map", "[Karte]")>>}

SampleCells ==
    {Cell("ads_opt_name", "", ch) : ch \in SampleChildren}
        \cup {Cell("ads_opt", id, ch) : id \in {"", "tdo_20"}, ch \in SampleChildren}

SamplePages ==
    {Down, NoTable}
        \cup {Doc(cs) : cs \in UNION {[1..n -> SampleCells] : n \in 0..MaxCells}}

InitExtract ==
    /\ pc = "x_call"
    /\ err = "none"
    /\ err_line = 0
    /\ index_page = IndexDown
    /\ web = <<>>
    /\ edited = FALSE
    /\ ogre_object = <<>>
    /\ nondup_urls = <<>>
    /\ it = 0
    /\ i = -1
    /\ jt = 0
    /\ current_msg_url = ""
    /\ table_opt_names = <<>>
    /\ table_opt_values = <<>>
    /\ table_price = <<>>
    /\ report = Absent
    /\ prior = Absent
    /\ calls = <<>>
    /\ docs = <<>>
    /\ visited = <<>>
    /\ soup \in SamplePages
    /\ td_class \in {"ads_opt_name", "ads_opt"}
    /\ table_fields = NoResult
    /\ rerun = <<>>

Extract ==
    /\ pc = "x_call"
    /\ table_fields' = get_msg_table_info(soup, td_class)
    /\ Goto("x_done")
    /\ UNCHANGED <<remoteVars, ogre_object, nondup_urls, loopVars, current_msg_url,
                   tableVars, fileVars, prior, docs, visited, soup, td_class, rerun>>

NextExtract == Extract

SpecExtract == InitExtract /\ [][NextExtract]_vars

-----------------------------------------------------------------------------
(* Vocabulary of the properties *)

Texts(cs) == [k \in 1..Len(cs) |-> cs[k].text]

\* the write_line calls made while listing number t (1, 2, ...) was processed
Block(t) == SelectSeq(calls, LAMBDA c : c.listing = t)

Lines(cs, l) == SelectSeq(cs, LAMBDA c : c.line = l)

\* the listing being processed was served the same page d by all three requests
SameSnapshot(d) == docs = <<d, d, d>>

\* main is past the last line of the current listing's block
ListingWritten == pc = "loop" /\ visited # <<>>

\* the text of a cell that holds text only
CellText(cell) == inner_html(cell.children)

\* the text of a cell before its first nested tag
LeadingText(cell) ==
    IF cell.children # <<>> /\ Head(cell.children).kind = "text"
    THEN Head(cell.children).text
    ELSE ""

HasNestedTag(cell) == \E k \in 1..Len(cell.children) : cell.children[k].kind # "text"

IsPrefix(a, b) == Len(a) <= Len(b) /\ SubSeq(b, 1, Len(a)) = a

-----------------------------------------------------------------------------
(* Properties *)

\* C1: a fault of get_msg_table_info for one listing (the request fails, or the
\* page has no page_main table) does not abort the run: main is never stopped by
\* an exception raised in get_msg_table_info.
C1_ExtractionFaultSkipsListing ==
    ~(pc = "fault" /\ err_line \in {95, 101, 104})

\* C2: for every number L of discovered links main reads no link at an index
\* >= L, never faults on the link list, and is done after exactly min(10, L)
\* listings.
C2_StopsAtEndOfLinks ==
    /\ \A k \in 1..Len(visited) : visited[k] < Len(nondup_urls)
    /\ ~(pc = "fault" /\ err_line = 34)
    /\ pc = "done" =>
          Len(visited) = (IF Len(nondup_urls) < N THEN Len(nondup_urls) ELSE N)

\* C3: for a listing whose page has K name cells, K value cells and 1 price
\* cell, the block main appends is the header line, the URL line, the K lines
\* 'name-->value' in document order, and the price line.
C3_BlockHasKPairs ==
    \A d \in Pages :
        (/\ ListingWritten
         /\ SameSnapshot(d)
         /\ d.table
         /\ Count(d, "ads_opt_name") = Count(d, "ads_opt")
         /\ Count(d, "ads_price") = 1)
        => LET names == findAll_td(d, "ads_opt_name")
               values == findAll_td(d, "ads_opt")
               price == findAll_td(d, "ads_price")
           IN  Texts(Block(Len(visited))) =
                   <<report_header, current_msg_url>>
                       \o [k \in 1..Len(names) |->
                              CellText(names[k]) \o "-->" \o CellText(values[k]) \o "\n"]
                       \o <<"Price:--->" \o CellText(price[1]) \o "\n">>

\* C4: for a listing with m names and n values, m # n, the pairing raises no
\* error and exactly min(m, n) paired lines are written.
C4_ShorterSequenceGoverns ==
    \A d \in Pages :
        (/\ SameSnapshot(d)
         /\ d.table
         /\ Count(d, "ads_opt_name") # Count(d, "ads_opt"))
        => LET m == Count(d, "ads_opt_name")
               n == Count(d, "ads_opt")
           IN  /\ ~(pc = "fault" /\ err_line = 45)
               /\ (ListingWritten \/ (pc = "fault" /\ err_line = 47))
                     => Len(Lines(Block(Len(visited)), 46)) = (IF m < n THEN m ELSE n)

\* C5: the report file always holds its content from before the run followed
\* by the texts given to write_line, verbatim and in call order, also after a
\* fault; the first write creates an absent file.
C5_AppendOnly ==
    /\ report.content = prior.content \o Flatten(Texts(calls))
    /\ calls # <<>> => report.exists
    /\ calls = <<>> => report = prior

C5_Witness ==
    /\ pc = "fault"
    /\ err_line \in {45, 47}
    /\ prior.content # ""
    /\ Len(calls) > 2

\* C7: a listing whose page has the table but no name, value or price cell is
\* not a fault: main is not stopped while processing it, and its block is the
\* header line, the URL line and a price line.
C7_EmptyListingIsNotAFault ==
    SameSnapshot(Page(0, 0, 0)) =>
        /\ pc # "fault"
        /\ ListingWritten =>
              /\ Len(Lines(Block(Len(visited)), 40)) = 1
              /\ Len(Lines(Block(Len(visited)), 48)) = 1

\* C8: the names, values and price of a listing are parsed from one and the
\* same snapshot of its page, even if the remote page changes meanwhile.
C8_SingleSnapshot ==
    (pc \in {"header", "url", "pairs"} \/ ListingWritten) =>
        /\ Len(docs) = 3
        /\ docs[1] = docs[2]
        /\ docs[2] = docs[3]

\* C10: main processes the links 0, 1, 2, ... in discovery order, each once,
\* whatever the inner loop does to i; a finished run has processed exactly the
\* first N; the blocks of the report follow one another in that order and each
\* carries the URL of its own link.
C10_ListingsInOrder ==
    /\ \A k \in 1..Len(visited) : visited[k] = k - 1
    /\ Len(visited) <= N
    /\ pc = "done" => Len(visited) = N
    /\ \A a, b \in 1..Len(calls) : a < b => calls[a].listing <= calls[b].listing
    /\ \A t \in 1..Len(visited) :
          /\ Len(Lines(Block(t), 40)) <= 1
          /\ Len(Lines(Block(t), 42)) <= 1
          /\ \A k \in 1..Len(Block(t)) :
                Block(t)[k].line = 42 => Block(t)[k].text = nondup_urls[t] \o "\n"
    /\ pc = "done" =>
          Texts(Lines(calls, 42)) = [k \in 1..N |-> nondup_urls[k] \o "\n"]

C10_Witness ==
    /\ pc = "done"
    /\ Len(nondup_urls) > N
    /\ Len(table_opt_names) = 3
    /\ i = 1

\* the anchors of the document that carry an href containing the listing marker
Matching(doc) ==
    {k \in 1..Len(doc) : doc[k].has_href /\ find(doc[k].href, "msg") # 0}

UrlOf(a) == origin \o a.href

FirstPos(doc, u) == Min({k \in Matching(doc) : UrlOf(doc[k]) = u})

\* C6: discovery returns exactly the URLs (origin + href) of the href-carrying
\* anchors containing 'msg', each once, in the order of their first
\* occurrence; no matching anchor gives the empty list; a second discovery on
\* the same document gives the same sequence.
C6_DiscoveryIsOrderedSet ==
    pc \in {"d_again", "d_done"} =>
        /\ {nondup_urls[k] : k \in 1..Len(nondup_urls)}
               = {UrlOf(ogre_object[k]) : k \in Matching(ogre_object)}
        /\ \A a, b \in 1..Len(nondup_urls) :
               a < b => /\ nondup_urls[a] # nondup_urls[b]
                        /\ FirstPos(ogre_object, nondup_urls[a])
                               < FirstPos(ogre_object, nondup_urls[b])
        /\ Matching(ogre_object) = {} => nondup_urls = <<>>
        /\ pc = "d_done" => rerun = nondup_urls

C6_Witness ==
    /\ pc = "d_done"
    /\ Len(nondup_urls) = 2
    /\ Cardinality(Matching(ogre_object)) = 3
    /\ \E k \in 1..Len(ogre_object) : ~ogre_object[k].has_href

====
